---- MODULE Spec2Model ----
(***************************************************************************)
(* eldrin-app-react: the single-spa lifecycle factory createApp (in its    *)
(* two variants), the module-level database context, and the lifecycle     *)
(* combinator combineLifecycles.                                           *)
(*                                                                         *)
(* JavaScript runs one task at a time: the code between two awaits is one  *)
(* action.  An async function is a process whose position is the await it  *)
(* is suspended at.                                                        *)
(***************************************************************************)
EXTENDS Integers, Sequences, FiniteSets, TLC

(***************************************************************************)
(* Bounds                                                                  *)
(***************************************************************************)
\* longest migration list given to createApp
MaxMigrations == 1
\* bootstrap invocations per app instance
MaxBootstraps == 2
\* calls of the combined lifecycle's phase functions
MaxCalls == 2
\* mount invocations per app instance
MaxMounts == 2
\* longest list of functions in one phase of a lifecycle
MaxFns == 2

(***************************************************************************)
(* JavaScript values                                                       *)
(***************************************************************************)
Null == [t |-> "null"]
Undefined == [t |-> "undefined"]

\* D1Database handles the host may pass in props.db
Dbs == {[t |-> "D1Database", id |-> "d1"], [t |-> "D1Database", id |-> "d2"]}

\* props.db is optional: the host may leave it out, or pass null
PropsDb == Dbs \cup {Undefined, Null}

\* JavaScript truthiness of the values a database handle can take
Truthy(v) == v.t \notin {"null", "undefined"}

\* v ?? d
Coalesce(v, d) == IF v.t \in {"null", "undefined"} THEN d ELSE v

\* new Error(message) evaluated at allocation site `site`; the site is the
\* object's identity (each site runs at most once per bootstrap invocation)
NewError(message, site) == [t |-> "Error", message |-> message, id |-> site]

JsStr(s) == [t |-> "string", s |-> s]
JsNum(n) == [t |-> "number", n |-> n]

\* String(v)
String(v) ==
  CASE v.t = "string" -> v.s
    [] v.t = "number" -> ToString(v.n)
    [] v.t = "null" -> "null"
    [] v.t = "undefined" -> "undefined"
    [] v.t = "Error" -> "Error: " \o v.message

\* values the migration collaborator may reject with
Rejections == {NewError("database is locked", "runMigrations"), JsStr("boom"), JsNum(42)}

\* values a user callback may throw
CallbackThrows == {NewError("callback failed", "callback"), JsStr("oops")}

\* what one invocation of a user callback does: return, or throw a value
Returns == [threw |-> FALSE, value |-> Undefined]
Behaviours == {Returns} \cup {[threw |-> TRUE, value |-> v] : v \in CallbackThrows}

\* migration lists: ordered migration file names
MigrationLists == UNION {[1..n -> {"m.sql"}] : n \in 0..MaxMigrations}

\* MigrationResult records the collaborator may resolve with: success with any
\* count of executed migrations, failure (nothing executed) with or without error
Messages == {"checksum mismatch"}
MigrationResults(migrations) ==
  {[t |-> "MigrationResult", success |-> TRUE, executed |-> n, error |-> Undefined] :
      n \in 0..Len(migrations)}
  \cup
  {[t |-> "MigrationResult", success |-> FALSE, executed |-> n, error |-> e] :
      n \in {0},
      e \in {Undefined} \cup {[t |-> "object", message |-> m] : m \in Messages}}

\* how the collaborator's promise settles
Outcomes(migrations) ==
  {[kind |-> "resolved", value |-> r] : r \in MigrationResults(migrations)}
  \cup {[kind |-> "rejected", value |-> x] : x \in Rejections}

NoOutcome == [kind |-> "none", value |-> Undefined]

(***************************************************************************)
(* State                                                                   *)
(***************************************************************************)
AllApps == {"app1", "app2"}
Variants == {"compose", "dom"}

VARIABLES
  apps,              \* the app instances created by createApp in this process
  options,           \* options[a]: the CreateAppOptions of instance a
  state,             \* state[a]: the closure's AppState
  _databaseContext,  \* context.tsx: the module-level database context
  boot,              \* boot[a]: the bootstrap invocation of a (position, props, outcome)
  calls,             \* calls[a]: what the current bootstrap invocation of a has called
  eldrinLifecycle,   \* combineLifecycles: its first argument
  reactLifecycle,    \* combineLifecycles: its second argument
  combined,          \* the call of a phase of the combined lifecycle (position, props, outcome)
  invoked,           \* the functions the current combined call has invoked, in order
  everInvoked,       \* the functions any combined call has invoked
  document,          \* the elements getElementById finds in the document
  mounts,            \* mounts[a]: the mount invocations of a, in order of call
  roots,             \* roots[a]: the React roots createRoot has made for a, in order
  html,              \* html[e]: the roots whose output is in element e
  lastCall,          \* lastCall[a]: the latest of the mount and unmount calls on a
  provider,          \* the value of the provider enclosing the view; null without one
  window,            \* window.__ELDRIN__
  hook               \* the latest call of a hook by the view, and how it ended

appVars == <<apps, options, state, _databaseContext, boot, calls>>
combineVars == <<eldrinLifecycle, reactLifecycle, combined, invoked, everInvoked>>
mountVars == <<document, mounts, roots, html, lastCall>>
hookVars == <<provider, window, hook>>
vars == <<appVars, combineVars, mountVars, hookVars>>

\* the closure state right after createApp returns
InitialState(variant) ==
  IF variant = "compose"
    THEN [db |-> Null, migrationsComplete |-> FALSE, migrationResult |-> Null]
    ELSE [db |-> Null, migrationsComplete |-> FALSE, migrationResult |-> Undefined,
          mountedElement |-> Undefined, reactRoot |-> Undefined]

InitialContext == [db |-> Null, migrationsComplete |-> FALSE, migrationResult |-> Null]

NoCalls ==
  [runMigrations |-> <<>>,
   outcome |-> NoOutcome,
   onMigrationsComplete |-> <<>>,
   onMigrationError |-> <<>>,
   setDatabaseContext |-> 0]

IdleBoot == [pc |-> "idle", db |-> Undefined, error |-> Undefined, n |-> 0]

OptionSets ==
  [variant : Variants,
   migrations : MigrationLists,
   onMigrationsComplete : BOOLEAN,
   onMigrationError : BOOLEAN]

(***************************************************************************)
(* createApp.bootstrap                                                     *)
(*                                                                         *)
(* A run of bootstrap threads an execution record x through the code:      *)
(*   x.st  the closure state, x.ctx the module-level context,              *)
(*   x.cl  the calls made so far, x.pc / x.error how the promise stands.   *)
(***************************************************************************)
Resolve(x) == [x EXCEPT !.pc = "resolved"]
Reject(x, e) == [x EXCEPT !.pc = "rejected", !.error = e]

\* a statement that completed normally / that threw `value`
Normal(x) == [x |-> x, threw |-> FALSE, value |-> Undefined]
Thrown(x, value) == [x |-> x, threw |-> TRUE, value |-> value]

\* _setDatabaseContext(context)
SetDatabaseContext(x, context) ==
  [x EXCEPT !.ctx = context, !.cl.setDatabaseContext = @ + 1]

\* the behaviour of the next invocation of onMigrationError in this bootstrap
ErrBehaviour(x, bs) == bs.err[Len(x.cl.onMigrationError) + 1]

\* onMigrationsComplete?.(result)
CallOnMigrationsComplete(x, opts, result, b) ==
  IF opts.onMigrationsComplete
    THEN LET x1 == [x EXCEPT !.cl.onMigrationsComplete =
                                Append(@, [arg |-> result, threw |-> b.threw, value |-> b.value])]
         IN IF b.threw THEN Thrown(x1, b.value) ELSE Normal(x1)
    ELSE Normal(x)

\* onMigrationError?.(error)
CallOnMigrationError(x, opts, error, b) ==
  IF opts.onMigrationError
    THEN LET x1 == [x EXCEPT !.cl.onMigrationError =
                                Append(@, [arg |-> error, threw |-> b.threw, value |-> b.value])]
         IN IF b.threw THEN Thrown(x1, b.value) ELSE Normal(x1)
    ELSE Normal(x)

\* NormalizeError passing the caught value on as it is
NormalizeError_Identity(error, site) == error

\* error instanceof Error ? error : new Error(String(error))
NormalizeError(error, site) ==
  IF error.t = "Error" THEN error ELSE NewError(String(error), site)

\* CallRunMigrations without the await: the call is made and bootstrap goes on
CallRunMigrations_NoAwait(x, db, migrations) ==
  [x EXCEPT !.cl.runMigrations = Append(@, [db |-> db, migrations |-> migrations]),
            !.pc = "resolved"]

\* const result = await runMigrations(db, { migrations }): the call, and the suspension
CallRunMigrations(x, db, migrations) ==
  [x EXCEPT !.cl.runMigrations = Append(@, [db |-> db, migrations |-> migrations]),
            !.pc = "awaiting"]

(*--------------------- composition variant (src/src/createApp.ts) --------*)

\* if (!db) { ... return; }
ComposeNoDatabase(x) ==
  Resolve(SetDatabaseContext([x EXCEPT !.st.migrationsComplete = TRUE],
                             [db |-> Null, migrationsComplete |-> TRUE,
                              migrationResult |-> Null]))

\* ComposeNoMigrations publishing the context but leaving state.migrationsComplete alone
ComposeNoMigrations_FlagNotSet(x, db) ==
  Resolve(SetDatabaseContext(x, [db |-> db, migrationsComplete |-> TRUE,
                                 migrationResult |-> Null]))

\* else { state.migrationsComplete = true; _setDatabaseContext({db, true, null}) }
ComposeNoMigrations(x, db) ==
  Resolve(SetDatabaseContext([x EXCEPT !.st.migrationsComplete = TRUE],
                             [db |-> db, migrationsComplete |-> TRUE,
                              migrationResult |-> Null]))

\* bootstrap up to its await (or to its end, when it does not await)
ComposeBootstrap(opts, propsDb, x) ==
  LET db == propsDb IN
  IF ~Truthy(db)
    THEN ComposeNoDatabase(x)
    ELSE LET x1 == [x EXCEPT !.st.db = db] IN
         IF Len(opts.migrations) > 0
           THEN CallRunMigrations(x1, db, opts.migrations)
           ELSE ComposeNoMigrations(x1, db)

\* the try block after the await
ComposeTry(opts, db, result, x, bs) ==
  LET x1 == [x EXCEPT !.st.migrationResult = result,
                      !.st.migrationsComplete = result.success]
      x2 == SetDatabaseContext(x1, [db |-> db, migrationsComplete |-> result.success,
                                    migrationResult |-> result])
  IN IF result.success
       THEN CallOnMigrationsComplete(x2, opts, result, bs.ok)
     ELSE IF result.error # Undefined
       THEN CallOnMigrationError(x2, opts,
                                 NewError(result.error.message, "createApp.ts:107"),
                                 ErrBehaviour(x2, bs))
     ELSE Normal(x2)

\* ComposeCatch, were the catch block to mark the migrations complete
ComposeCatch_FlagSet(opts, db, error, x, bs) ==
  LET x1 == [x EXCEPT !.st.migrationsComplete = TRUE]
      x2 == SetDatabaseContext(x1, [db |-> db, migrationsComplete |-> FALSE,
                                    migrationResult |-> Null])
      c == CallOnMigrationError(x2, opts, NormalizeError(error, "createApp.ts:118"),
                                ErrBehaviour(x2, bs))
  IN IF c.threw THEN Reject(c.x, c.value) ELSE Resolve(c.x)

\* the catch block
ComposeCatch(opts, db, error, x, bs) ==
  LET x1 == [x EXCEPT !.st.migrationsComplete = FALSE]
      x2 == SetDatabaseContext(x1, [db |-> db, migrationsComplete |-> FALSE,
                                    migrationResult |-> Null])
      c == CallOnMigrationError(x2, opts, NormalizeError(error, "createApp.ts:118"),
                                ErrBehaviour(x2, bs))
  IN IF c.threw THEN Reject(c.x, c.value) ELSE Resolve(c.x)

\* bootstrap from the settling of runMigrations to its end
ComposeResume(opts, db, outcome, x, bs) ==
  IF outcome.kind = "resolved"
    THEN LET c == ComposeTry(opts, db, outcome.value, x, bs)
         IN IF c.threw THEN ComposeCatch(opts, db, c.value, c.x, bs) ELSE Resolve(c.x)
    ELSE ComposeCatch(opts, db, outcome.value, x, bs)

(*--------------------- DOM-rendering variant (src/unnamed/part_001) ------*)

\* else { state.migrationsComplete = true; }
DomNoMigrations(x) == Resolve([x EXCEPT !.st.migrationsComplete = TRUE])

\* DomBootstrap running the migrations whenever there are any, database or not
DomBootstrap_NoDbCheck(opts, propsDb, x) ==
  LET db == Coalesce(propsDb, Null)
      x1 == [x EXCEPT !.st.db = db]
  IN IF Len(opts.migrations) > 0
       THEN CallRunMigrations(x1, db, opts.migrations)
       ELSE DomNoMigrations(x1)

\* bootstrap up to its await (or to its end, when it does not await)
DomBootstrap(opts, propsDb, x) ==
  LET db == Coalesce(propsDb, Null)
      x1 == [x EXCEPT !.st.db = db]
  IN IF Truthy(db) /\ Len(opts.migrations) > 0
       THEN CallRunMigrations(x1, db, opts.migrations)
       ELSE DomNoMigrations(x1)

\* the try block after the await
DomTry(opts, result, x, bs) ==
  LET x1 == [x EXCEPT !.st.migrationResult = result] IN
  IF result.success
    THEN CallOnMigrationsComplete([x1 EXCEPT !.st.migrationsComplete = TRUE],
                                  opts, result, bs.ok)
    ELSE LET message == IF result.error = Undefined THEN "Migration failed"
                        ELSE result.error.message
             error == NewError(message, "part_001:92")
             c == CallOnMigrationError(x1, opts, error, ErrBehaviour(x1, bs))
         IN IF c.threw THEN c ELSE Thrown(c.x, error)

\* DomCatch with the composition variant's policy: report the error, do not re-raise it
DomCatch_Swallow(opts, error, x, bs) ==
  LET x1 == [x EXCEPT !.st.migrationsComplete = FALSE]
      err == NormalizeError(error, "part_001:98")
      c == CallOnMigrationError(x1, opts, err, ErrBehaviour(x1, bs))
  IN IF c.threw THEN Reject(c.x, c.value) ELSE Resolve(c.x)

\* the catch block
DomCatch(opts, error, x, bs) ==
  LET x1 == [x EXCEPT !.st.migrationsComplete = FALSE]
      err == NormalizeError(error, "part_001:98")
      c == CallOnMigrationError(x1, opts, err, ErrBehaviour(x1, bs))
  IN IF c.threw THEN Reject(c.x, c.value) ELSE Reject(c.x, err)

\* bootstrap from the settling of runMigrations to its end
DomResume(opts, outcome, x, bs) ==
  IF outcome.kind = "resolved"
    THEN LET c == DomTry(opts, outcome.value, x, bs)
         IN IF c.threw THEN DomCatch(opts, c.value, c.x, bs) ELSE Resolve(c.x)
    ELSE DomCatch(opts, outcome.value, x, bs)

(*--------------------- both variants -------------------------------------*)

\* what the callbacks of one bootstrap invocation do, invocation by invocation
\* (a callback that was not supplied is never invoked: it has one behaviour)
BehaviourChoices(opts) ==
  [ok : IF opts.onMigrationsComplete THEN Behaviours ELSE {Returns},
   err : [1..2 -> IF opts.onMigrationError THEN Behaviours ELSE {Returns}]]

Execution(a) ==
  [st |-> state[a], ctx |-> _databaseContext, cl |-> calls[a],
   pc |-> boot[a].pc, error |-> boot[a].error]

Commit(a, x, b) ==
  /\ state' = [state EXCEPT ![a] = x.st]
  /\ _databaseContext' = x.ctx
  /\ calls' = [calls EXCEPT ![a] = x.cl]
  /\ boot' = [boot EXCEPT ![a] = [b EXCEPT !.pc = x.pc, !.error = x.error]]
  /\ UNCHANGED <<apps, options>>

\* bootstrap(props) is invoked on instance a with props.db = propsDb
BootstrapCall(a, propsDb) ==
  /\ a \in apps
  /\ boot[a].pc \notin {"awaiting", "settled"}
  /\ LET x0 == [Execution(a) EXCEPT !.cl = NoCalls, !.pc = "running", !.error = Undefined]
         x == IF options[a].variant = "compose"
                THEN ComposeBootstrap(options[a], propsDb, x0)
                ELSE DomBootstrap(options[a], propsDb, x0)
     IN Commit(a, x, [boot[a] EXCEPT !.db = propsDb, !.n = @ + 1])

\* the promise of runMigrations settles: bootstrap, suspended at its await, is
\* queued to resume
MigrationsSettle(a) ==
  /\ a \in apps
  /\ boot[a].pc = "awaiting"
  /\ \E outcome \in Outcomes(options[a].migrations) :
       Commit(a, [Execution(a) EXCEPT !.cl.outcome = outcome, !.pc = "settled"], boot[a])

\* bootstrap resumes after its await and runs to its end
BootstrapResume(a) ==
  /\ a \in apps
  /\ boot[a].pc = "settled"
  /\ \E bs \in BehaviourChoices(options[a]) :
       LET x == IF options[a].variant = "compose"
                  THEN ComposeResume(options[a], boot[a].db, calls[a].outcome,
                                     Execution(a), bs)
                  ELSE DomResume(options[a], calls[a].outcome, Execution(a), bs)
       IN Commit(a, x, boot[a])

InitApps(instances, variants) ==
  /\ apps = instances
  /\ options \in [AllApps -> OptionSets]
  /\ \A a \in AllApps :
       /\ options[a].variant \in variants
       /\ a \notin instances => options[a] = [variant |-> "compose", migrations |-> <<>>,
                                              onMigrationsComplete |-> FALSE,
                                              onMigrationError |-> FALSE]
  /\ state = [a \in AllApps |-> InitialState(options[a].variant)]
  /\ _databaseContext = InitialContext
  /\ boot = [a \in AllApps |-> IdleBoot]
  /\ calls = [a \in AllApps |-> NoCalls]

(***************************************************************************)
(* createApp.mount and createApp.unmount                                   *)
(***************************************************************************)
Element(id) == [t |-> "HTMLElement", id |-> id]

\* a node the host passes in props.domElement
HostNode == Element("host-node")

\* props.domElement is optional
PropsDomElement == {Undefined, HostNode}

\* `app-${name}`, the name of instance a being a
AppElementId(a) == "app-" \o a

\* the elements the model's documents are made of
Elements == {HostNode} \cup {Element(AppElementId(a)) : a \in AllApps}

\* document.getElementById(id)
GetElementById(id) == IF Element(id) \in document THEN Element(id) ELSE Null

\* context.tsx (DOM-rendering variant) DatabaseProvider: the context value it publishes
DatabaseProvider(props) ==
  [db |-> props.db,
   migrationsComplete |-> props.migrationsComplete,
   migrationResult |-> props.migrationResult]

\* the three fields of the closure state that bootstrap, mount and the provider share
SharedState(st) ==
  [db |-> st.db,
   migrationsComplete |-> st.migrationsComplete,
   migrationResult |-> st.migrationResult]

\* AppElement, were the migration result left out of the provider's props
AppElement_NoResult(st) ==
  [db |-> st.db,
   migrationsComplete |-> st.migrationsComplete,
   migrationResult |-> Undefined]

\* createElement(DatabaseProvider, {db: state.db, ...}): the props of the element
AppElement(st) ==
  [db |-> st.db,
   migrationsComplete |-> st.migrationsComplete,
   migrationResult |-> st.migrationResult]

\* a React root: ReactDOM.createRoot(container), then root.render(element)
Root(k) == [t |-> "Root", id |-> k]
RenderedRoot(container, element) ==
  [container |-> container, element |-> element, unmounted |-> 0]

\* the value the dynamic import of react-dom/client rejects with, when it does
ImportError == NewError("Failed to fetch dynamically imported module", "import")

\* DomMount, were the target recorded before it is checked
DomMount_RecordFirst(st, a, propsDomElement) ==
  LET domElement == Coalesce(propsDomElement, GetElementById(AppElementId(a))) IN
  IF ~Truthy(domElement)
    THEN [st |-> [st EXCEPT !.mountedElement = domElement],
          m |-> [pc |-> "rejected", domElement |-> Undefined, appElement |-> Undefined,
                 error |-> NewError("No DOM element found for app \"" \o a \o "\"", "part_001:115")]]
    ELSE [st |-> [st EXCEPT !.mountedElement = domElement],
          m |-> [pc |-> "awaiting", domElement |-> domElement,
                 appElement |-> AppElement(st), error |-> Undefined]]

\* mount up to its await: the closure state it leaves and the invocation's record
DomMount(st, a, propsDomElement) ==
  LET domElement == Coalesce(propsDomElement, GetElementById(AppElementId(a))) IN
  IF ~Truthy(domElement)
    THEN [st |-> st,
          m |-> [pc |-> "rejected", domElement |-> Undefined, appElement |-> Undefined,
                 error |-> NewError("No DOM element found for app \"" \o a \o "\"", "part_001:115")]]
    ELSE [st |-> [st EXCEPT !.mountedElement = domElement],
          m |-> [pc |-> "awaiting", domElement |-> domElement,
                 appElement |-> AppElement(st), error |-> Undefined]]

\* DomMountResume, were the root not recorded
DomMountResume_NoRecord(st, k) == st

\* mount from its await to its end, the import having resolved: k is the new root
DomMountResume(st, k) == [st EXCEPT !.reactRoot = Root(k)]

\* root.unmount() on root k
RootUnmount(x, k) ==
  [x EXCEPT !.roots[k].unmounted = @ + 1,
            !.roots[k].element = Undefined,
            !.html[x.roots[k].container] = @ \ {k}]

\* UnmountRoot, were the root kept in a variable that is never cleared
UnmountRoot_LastRoot(x) ==
  IF Len(x.roots) > 0
    THEN [RootUnmount(x, Len(x.roots)) EXCEPT !.st.reactRoot = Undefined]
    ELSE x

\* if (state.reactRoot) { state.reactRoot.unmount(); state.reactRoot = undefined; }
UnmountRoot(x) ==
  IF Truthy(x.st.reactRoot)
    THEN [RootUnmount(x, x.st.reactRoot.id) EXCEPT !.st.reactRoot = Undefined]
    ELSE x

\* ClearElement, were unmount to reset the whole closure state
ClearElement_ResetsState(x) ==
  IF Truthy(x.st.mountedElement)
    THEN [x EXCEPT !.html[x.st.mountedElement] = {}, !.st = InitialState("dom")]
    ELSE x

\* if (state.mountedElement) { state.mountedElement.innerHTML = ''; ... = undefined; }
ClearElement(x) ==
  IF Truthy(x.st.mountedElement)
    THEN [x EXCEPT !.html[x.st.mountedElement] = {}, !.st.mountedElement = Undefined]
    ELSE x

\* unmount: x.st the closure state, x.roots the roots of the app, x.html the elements
DomUnmount(x) == ClearElement(UnmountRoot(x))

\* a mount invocation that has ended: its locals are gone
Ended(m) ==
  [m EXCEPT !.domElement = Undefined, !.appElement = Undefined, !.called = Undefined]

\* the closure state of a records a root or a mounted element
SomethingMounted(a) ==
  /\ options[a].variant = "dom"
  /\ Truthy(state[a].reactRoot) \/ Truthy(state[a].mountedElement)

\* a mount call on a is suspended at its await
MountInFlight(a) == \E i \in 1..Len(mounts[a]) : mounts[a][i].pc = "awaiting"

\* the record of a mount invocation, with what held when it was called (the
\* shared state of a, the number of bootstrap calls made on a so far, whether
\* nothing was mounted or being mounted) and the root it goes on to create
Called(m, a) ==
  [pc |-> m.pc, domElement |-> m.domElement, appElement |-> m.appElement,
   error |-> m.error,
   called |-> IF m.pc = "awaiting"
                THEN [shared |-> SharedState(state[a]), boots |-> boot[a].n]
                ELSE Undefined,
   fresh |-> ~SomethingMounted(a) /\ ~MountInFlight(a),
   root |-> 0]

\* a mount invocation of the composition variant: it warns, and resolves
ComposeMount ==
  [pc |-> "resolved", domElement |-> Undefined, appElement |-> Undefined,
   error |-> Undefined]

\* mount(props) is invoked on instance a with props.domElement = propsDomElement
MountCall(a, propsDomElement) ==
  /\ a \in apps
  /\ IF options[a].variant = "dom"
       THEN LET r == DomMount(state[a], a, propsDomElement) IN
            /\ state' = [state EXCEPT ![a] = r.st]
            /\ mounts' = [mounts EXCEPT ![a] = Append(@, Called(r.m, a))]
       ELSE /\ mounts' = [mounts EXCEPT ![a] = Append(@, Called(ComposeMount, a))]
            /\ UNCHANGED state
  /\ UNCHANGED <<apps, options, _databaseContext, boot, calls>>
  /\ lastCall' = [lastCall EXCEPT ![a] = [op |-> "mount"]]
  /\ UNCHANGED <<document, roots, html>>

\* the import of react-dom/client settles and mount invocation i runs to its end
MountResume(a, i) ==
  /\ a \in apps
  /\ i \in 1..Len(mounts[a])
  /\ mounts[a][i].pc = "awaiting"
  /\ \E imported \in BOOLEAN :
       IF imported
         THEN LET k == Len(roots[a]) + 1
                  m == mounts[a][i]
              IN /\ roots' = [roots EXCEPT ![a] =
                                Append(@, RenderedRoot(m.domElement, m.appElement))]
                 /\ html' = [html EXCEPT ![m.domElement] = @ \cup {k}]
                 /\ state' = [state EXCEPT ![a] = DomMountResume(@, k)]
                 /\ mounts' = [mounts EXCEPT ![a][i] =
                                 Ended([m EXCEPT !.pc = "resolved", !.root = k])]
         ELSE /\ mounts' = [mounts EXCEPT ![a][i] =
                              Ended([@ EXCEPT !.pc = "rejected", !.error = ImportError])]
              /\ UNCHANGED <<roots, html, state>>
  /\ UNCHANGED <<apps, options, _databaseContext, boot, calls>>
  /\ UNCHANGED <<document, lastCall>>

\* the calls of root.unmount() made so far on the roots rs
RECURSIVE RootUnmounts(_)
RootUnmounts(rs) ==
  IF rs = <<>> THEN 0 ELSE rs[1].unmounted + RootUnmounts(Tail(rs))

\* unmount(props) is invoked on instance a; it has no await
UnmountCall(a) ==
  /\ a \in apps
  /\ IF options[a].variant = "dom"
       THEN LET x == DomUnmount([st |-> state[a], roots |-> roots[a], html |-> html]) IN
            /\ state' = [state EXCEPT ![a] = x.st]
            /\ roots' = [roots EXCEPT ![a] = x.roots]
            /\ html' = x.html
       ELSE UNCHANGED <<state, roots, html>>
  /\ lastCall' = [lastCall EXCEPT ![a] =
                    [op |-> "unmount",
                     mounted |-> SomethingMounted(a),
                     rootUnmounts |-> RootUnmounts(roots'[a]) - RootUnmounts(roots[a])]]
  /\ UNCHANGED <<apps, options, _databaseContext, boot, calls>>
  /\ UNCHANGED <<document, mounts>>

\* nothing has been mounted, and nothing is in any element
NothingMounted ==
  /\ mounts = [a \in AllApps |-> <<>>]
  /\ roots = [a \in AllApps |-> <<>>]
  /\ html = [e \in Elements |-> {}]
  /\ lastCall = [a \in AllApps |-> [op |-> "none"]]

(***************************************************************************)
(* context.tsx: the hooks of the view, and the shell bridge                *)
(***************************************************************************)
\* how a call ends
Returned(v) == [completion |-> "return", value |-> v]
Threw(v) == [completion |-> "throw", value |-> v]

\* Record<string, string>
Mapping(entries) == [t |-> "mapping", entries |-> entries]
EmptyMapping == Mapping({})
Mappings == {EmptyMapping, Mapping({<<"Authorization", "Bearer token">>})}

\* the getAuthHeaders the shell may install: it returns a mapping, or it throws
HeaderAccessors ==
  {[t |-> "function", does |-> "return", value |-> m] : m \in Mappings}
    \cup {[t |-> "function", does |-> "throw",
           value |-> NewError("session expired", "getAuthHeaders")]}

\* types.ts EldrinGlobal: both members are optional
Users == {[t |-> "user", id |-> "u1", email |-> "u1@example.com"]}
EldrinGlobals ==
  {[t |-> "EldrinGlobal", getAuthHeaders |-> g, user |-> u] :
      g \in HeaderAccessors \cup {Undefined}, u \in Users \cup {Undefined}}

\* window.__ELDRIN__: not set, null, or the shell's global
WindowBindings == EldrinGlobals \cup {Undefined, Null}

\* UseContext, were the enclosing provider not seen
UseContext_NoProvider == Null

\* useContext(EldrinDatabaseContext): the nearest provider's value, null by default
UseContext == provider

\* useDatabase, were it lenient
UseDatabase_Lenient(variant) ==
  LET context == UseContext IN
  IF context = Null THEN Returned(Null) ELSE Returned(context.db)

UseDatabase(variant) ==
  LET context == UseContext IN
  IF context = Null
    THEN Threw(NewError(IF variant = "compose"
                          THEN "useDatabase must be used within a DatabaseProvider"
                          ELSE "useDatabase must be used within a DatabaseProvider (via createApp)",
                        "useDatabase"))
    ELSE Returned(context.db)

UseDatabaseContext(variant) ==
  LET context == UseContext IN
  IF context = Null
    THEN Threw(NewError(IF variant = "compose"
                          THEN "useDatabaseContext must be used within a DatabaseProvider"
                          ELSE "useDatabaseContext must be used within a DatabaseProvider (via createApp)",
                        "useDatabaseContext"))
    ELSE Returned(context)

\* context?.migrationsComplete ?? false
UseMigrationsComplete ==
  LET context == UseContext IN
  IF context = Null THEN Returned(FALSE) ELSE Returned(context.migrationsComplete)

\* win.__ELDRIN__ ?? null
GetEldrinGlobal == Returned(Coalesce(window, Null))

UseEldrinGlobal == GetEldrinGlobal

\* calling the function f
Apply(f) == IF f.does = "throw" THEN Threw(f.value) ELSE Returned(f.value)

\* useAuthHeaders, were the shell's accessor never called
UseAuthHeaders_IgnoresShell == Returned(EmptyMapping)

\* eldrin?.getAuthHeaders?.() ?? {}
UseAuthHeaders ==
  LET eldrin == GetEldrinGlobal.value IN
  IF eldrin = Null
    THEN Returned(EmptyMapping)
    ELSE IF eldrin.getAuthHeaders = Undefined
           THEN Returned(EmptyMapping)
           ELSE LET r == Apply(eldrin.getAuthHeaders) IN
                IF r.completion = "throw" THEN r ELSE Returned(Coalesce(r.value, EmptyMapping))

Hooks ==
  {"useDatabase", "useDatabaseContext", "useMigrationsComplete",
   "getEldrinGlobal", "useEldrinGlobal", "useAuthHeaders"}

\* the view of instance a calls the hook named h
HookResult(a, h) ==
  CASE h = "useDatabase" -> UseDatabase(options[a].variant)
    [] h = "useDatabaseContext" -> UseDatabaseContext(options[a].variant)
    [] h = "useMigrationsComplete" -> UseMigrationsComplete
    [] h = "getEldrinGlobal" -> GetEldrinGlobal
    [] h = "useEldrinGlobal" -> UseEldrinGlobal
    [] h = "useAuthHeaders" -> UseAuthHeaders

\* hook records the call, the provider value it was made under, and its end
CallHook(a, h) ==
  /\ a \in apps
  /\ hook' = [name |-> h, context |-> provider, result |-> HookResult(a, h)]
  /\ UNCHANGED <<provider, window>>
  /\ UNCHANGED <<appVars, mountVars>>

\* the view of a is rendered inside a DatabaseProvider (the composition variant's
\* publishes the module-level context, the DOM-rendering variant's the props mount
\* gives it), or outside any
RenderView(a, inside) ==
  /\ a \in apps
  /\ provider' = IF ~inside THEN Null
                 ELSE IF options[a].variant = "compose" THEN _databaseContext
                 ELSE DatabaseProvider(AppElement(state[a]))
  /\ UNCHANGED <<window, hook>>
  /\ UNCHANGED <<appVars, mountVars>>

NoHook == [name |-> "none", context |-> Null, result |-> Returned(Undefined)]

\* no view is rendered, and the shell has installed no global
NothingRendered ==
  /\ provider = Null
  /\ window = Undefined
  /\ hook = NoHook

(***************************************************************************)
(* combineLifecycles                                                       *)
(***************************************************************************)
Phases == {"bootstrap", "mount", "unmount"}

\* a lifecycle function: function i of phase `phase` of lifecycle `of`
Fn(of, phase, i) == [of |-> of, phase |-> phase, i |-> i]
FnName(fn) == fn.of \o "." \o fn.phase \o "[" \o ToString(fn.i) \o "]"

\* the value of one phase of an AppLifecycle: LifecycleFn | LifecycleFn[]
Shapes == {[isArray |-> FALSE, n |-> 1]} \cup {[isArray |-> TRUE, n |-> k] : k \in 0..MaxFns}
PhaseValue(of, phase, shape) ==
  IF shape.isArray
    THEN [isArray |-> TRUE, fns |-> [k \in 1..shape.n |-> Fn(of, phase, k)]]
    ELSE [isArray |-> FALSE, fn |-> Fn(of, phase, 1)]

\* a lifecycle of functions the model knows nothing about (single-spa-react's, say)
ForeignLifecycle(of, shape) == [p \in Phases |-> PhaseValue(of, p, shape)]

\* return { bootstrap, mount, unmount } of createApp, for instance a
CreateAppLifecycle(a) == [p \in Phases |-> [isArray |-> FALSE, fn |-> Fn(a, p, 1)]]

\* runLifecycleFn(fn, props): the functions it invokes, in order
RunLifecycleFn(fn) == IF fn.isArray THEN fn.fns ELSE <<fn.fn>>

\* CombinedBootstrap running the React bootstrap before the Eldrin bootstrap
CombinedBootstrap_ReactFirst ==
  RunLifecycleFn(reactLifecycle.bootstrap) \o RunLifecycleFn(eldrinLifecycle.bootstrap)

\* CombinedMount running the Eldrin mount before delegating to React
CombinedMount_Both ==
  RunLifecycleFn(eldrinLifecycle.mount) \o RunLifecycleFn(reactLifecycle.mount)

\* the combined phase functions: the runLifecycleFn calls each makes, in order
CombinedBootstrap ==
  RunLifecycleFn(eldrinLifecycle.bootstrap) \o RunLifecycleFn(reactLifecycle.bootstrap)
CombinedMount == RunLifecycleFn(reactLifecycle.mount)
CombinedUnmount == RunLifecycleFn(reactLifecycle.unmount)

Plan(phase) ==
  CASE phase = "bootstrap" -> CombinedBootstrap
    [] phase = "mount" -> CombinedMount
    [] phase = "unmount" -> CombinedUnmount

\* AfterAwait going on to the next function although f's promise rejected
AfterAwait_IgnoreRejection(ok, k, n) ==
  IF k < n THEN "next" ELSE IF ok THEN "resolved" ELSE "rejected"

\* await f(props), f being function k of n: what the settling of f's promise leads to
AfterAwait(ok, k, n) ==
  IF ~ok THEN "rejected" ELSE IF k < n THEN "next" ELSE "resolved"

\* the value a foreign function rejects with
ForeignError(fn) == NewError("lifecycle function failed", FnName(fn))

IdleCombined ==
  [pc |-> "idle", phase |-> "bootstrap", db |-> Undefined, k |-> 0,
   error |-> Undefined, n |-> 0]

\* f(props): the call of lifecycle function fn, up to its first await
Invoke(fn, db, log) ==
  /\ invoked' = Append(log, [fn |-> fn, status |-> "pending", error |-> Undefined])
  /\ everInvoked' = everInvoked \cup {fn}
  /\ IF fn.of \in AllApps /\ fn.phase = "bootstrap"
       THEN BootstrapCall(fn.of, db)
       ELSE UNCHANGED appVars

\* the host calls a phase of the combined lifecycle with props.db = db
CombinedCall(phase, db) ==
  /\ combined.pc # "awaiting"
  /\ combined.n < MaxCalls
  /\ LET plan == Plan(phase)
         c == [combined EXCEPT !.phase = phase, !.db = db, !.error = Undefined,
                               !.n = @ + 1]
     IN IF plan = <<>>
          THEN /\ combined' = [c EXCEPT !.pc = "resolved", !.k = 0]
               /\ invoked' = <<>>
               /\ UNCHANGED <<everInvoked, appVars>>
          ELSE /\ combined' = [c EXCEPT !.pc = "awaiting", !.k = 1]
               /\ Invoke(plan[1], db, <<>>)
  /\ UNCHANGED <<eldrinLifecycle, reactLifecycle, mountVars, hookVars>>

\* the promise of the awaited function has settled: the combined phase goes on
Settled(ok, error) ==
  LET plan == Plan(combined.phase)
      k == combined.k
      log == [invoked EXCEPT ![Len(invoked)] =
                [@ EXCEPT !.status = IF ok THEN "resolved" ELSE "rejected",
                          !.error = error]]
      next == AfterAwait(ok, k, Len(plan))
  IN /\ IF next = "next"
          THEN /\ combined' = [combined EXCEPT !.k = k + 1]
               /\ Invoke(plan[k + 1], combined.db, log)
          ELSE /\ combined' = [combined EXCEPT !.pc = next,
                                 !.error = IF next = "rejected" THEN error ELSE Undefined]
               /\ invoked' = log
               /\ UNCHANGED <<everInvoked, appVars>>
     /\ UNCHANGED <<eldrinLifecycle, reactLifecycle, mountVars, hookVars>>

Pending == invoked[Len(invoked)].fn

\* a foreign lifecycle function resolves or rejects
ForeignSettle ==
  /\ combined.pc = "awaiting"
  /\ Pending.of \notin AllApps
  /\ \E ok \in BOOLEAN :
       Settled(ok, IF ok THEN Undefined ELSE ForeignError(Pending))

\* a function of createApp's lifecycle has settled and the combined phase resumes.
\* The composition variant's mount and unmount only warn, and resolve.
AppSettle ==
  /\ combined.pc = "awaiting"
  /\ Pending.of \in AllApps
  /\ Pending.phase = "bootstrap" => boot[Pending.of].pc \in {"resolved", "rejected"}
  /\ IF Pending.phase = "bootstrap"
       THEN Settled(boot[Pending.of].pc = "resolved", boot[Pending.of].error)
       ELSE Settled(TRUE, Undefined)

(***************************************************************************)
(* Specifications                                                          *)
(***************************************************************************)

\* the host runtime calls bootstrap on an app instance
Bootstrap(a) ==
  /\ boot[a].n < MaxBootstraps
  /\ \E db \in PropsDb : BootstrapCall(a, db)
  /\ UNCHANGED <<combineVars, mountVars, hookVars>>

RunMigrationsSettle(a) ==
  /\ MigrationsSettle(a)
  /\ UNCHANGED <<combineVars, mountVars, hookVars>>

ResumeBootstrap(a) ==
  /\ BootstrapResume(a)
  /\ UNCHANGED <<combineVars, mountVars, hookVars>>

\* Spec: one app instance of either variant, driven by the host directly
Init ==
  /\ InitApps({"app1"}, Variants)
  /\ eldrinLifecycle = CreateAppLifecycle("app1")
  /\ reactLifecycle = ForeignLifecycle("react", [isArray |-> FALSE, n |-> 1])
  /\ combined = IdleCombined
  /\ invoked = <<>>
  /\ everInvoked = {}
  /\ NothingMounted
  /\ NothingRendered
  /\ document = {}

Next ==
  \E a \in AllApps :
    \/ Bootstrap(a)
    \/ RunMigrationsSettle(a)
    \/ ResumeBootstrap(a)

Spec == Init /\ [][Next]_vars

\* the host runtime calls mount, and unmount, on an app instance
Mount(a) ==
  /\ Len(mounts[a]) < MaxMounts
  /\ \E el \in PropsDomElement : MountCall(a, el)
  /\ UNCHANGED <<combineVars, hookVars>>

ImportSettle(a) ==
  /\ \E i \in 1..MaxMounts : MountResume(a, i)
  /\ UNCHANGED <<combineVars, hookVars>>

Unmount(a) ==
  /\ UnmountCall(a)
  /\ UNCHANGED <<combineVars, hookVars>>

\* the props.db of the bootstrap call of a mounted app: none, or a database
MountPropsDb == {Null, [t |-> "D1Database", id |-> "d1"]}

\* single-spa bootstraps an application once
BootstrapOnce(a) ==
  /\ boot[a].n = 0
  /\ \E db \in MountPropsDb : BootstrapCall(a, db)
  /\ UNCHANGED <<combineVars, mountVars, hookVars>>

\* SpecMount: one app instance of either variant, created without callbacks,
\* bootstrapped once, mounted and unmounted in any order and at any time
InitMount ==
  /\ InitApps({"app1"}, Variants)
  /\ ~options["app1"].onMigrationsComplete
  /\ ~options["app1"].onMigrationError
  /\ Len(options["app1"].migrations) <= 1
  /\ document \in SUBSET {Element(AppElementId("app1"))}
  /\ options["app1"].variant = "compose" => document = {}
  /\ NothingMounted
  /\ NothingRendered
  /\ eldrinLifecycle = CreateAppLifecycle("app1")
  /\ reactLifecycle = ForeignLifecycle("react", [isArray |-> FALSE, n |-> 1])
  /\ combined = IdleCombined
  /\ invoked = <<>>
  /\ everInvoked = {}

NextMount ==
  \E a \in AllApps :
    \/ BootstrapOnce(a)
    \/ RunMigrationsSettle(a)
    \/ ResumeBootstrap(a)
    \/ Mount(a)
    \/ ImportSettle(a)
    \/ Unmount(a)

SpecMount == InitMount /\ [][NextMount]_vars

\* SpecHooks: one app instance of either variant, created without callbacks and
\* bootstrapped once, whose view is rendered, inside a provider or outside, and
\* calls the hooks; the shell has installed its global, or not, beforehand
Render(a) ==
  /\ \E inside \in BOOLEAN : RenderView(a, inside)
  /\ UNCHANGED combineVars

Call(a) ==
  /\ \E h \in Hooks : CallHook(a, h)
  /\ UNCHANGED combineVars

InitHooks ==
  /\ InitApps({"app1"}, Variants)
  /\ ~options["app1"].onMigrationsComplete
  /\ ~options["app1"].onMigrationError
  /\ Len(options["app1"].migrations) <= 1
  /\ NothingMounted
  /\ document = {}
  /\ provider = Null
  /\ window \in WindowBindings
  /\ hook = NoHook
  /\ eldrinLifecycle = CreateAppLifecycle("app1")
  /\ reactLifecycle = ForeignLifecycle("react", [isArray |-> FALSE, n |-> 1])
  /\ combined = IdleCombined
  /\ invoked = <<>>
  /\ everInvoked = {}

NextHooks ==
  \E a \in AllApps :
    \/ BootstrapOnce(a)
    \/ RunMigrationsSettle(a)
    \/ ResumeBootstrap(a)
    \/ Render(a)
    \/ Call(a)

SpecHooks == InitHooks /\ [][NextHooks]_vars

\* SpecTwoApps: two app instances of the composition variant in one process,
\* created without callbacks, whose bootstraps interleave at their awaits
InitTwoApps ==
  /\ InitApps(AllApps, {"compose"})
  /\ \A a \in AllApps : ~options[a].onMigrationsComplete /\ ~options[a].onMigrationError
  /\ NothingMounted
  /\ NothingRendered
  /\ document = {}
  /\ eldrinLifecycle = CreateAppLifecycle("app1")
  /\ reactLifecycle = ForeignLifecycle("react", [isArray |-> FALSE, n |-> 1])
  /\ combined = IdleCombined
  /\ invoked = <<>>
  /\ everInvoked = {}

NextTwoApps ==
  \E a \in AllApps :
    \/ BootstrapOnce(a)
    \/ RunMigrationsSettle(a)
    \/ ResumeBootstrap(a)

SpecTwoApps == InitTwoApps /\ [][NextTwoApps]_vars

\* FairSpec: Spec, with the event loop running every continuation that is queued:
\* a bootstrap whose awaited promise has settled does resume.  Nothing makes
\* the migration collaborator settle.
FairSpec == Spec /\ \A a \in AllApps : WF_vars(ResumeBootstrap(a))

\* SpecCombine: the host drives combineLifecycles(eldrinLifecycle, reactLifecycle),
\* eldrinLifecycle being createApp(options) of the composition variant or foreign
InitCombine ==
  /\ \/ /\ InitApps({"app1"}, {"compose"})
        /\ eldrinLifecycle = CreateAppLifecycle("app1")
     \/ /\ InitApps({}, {"compose"})
        /\ eldrinLifecycle \in {ForeignLifecycle("eldrin", s) : s \in Shapes}
  /\ reactLifecycle \in {ForeignLifecycle("react", s) : s \in Shapes}
  /\ combined = IdleCombined
  /\ invoked = <<>>
  /\ everInvoked = {}
  /\ NothingMounted
  /\ NothingRendered
  /\ document = {}

NextCombine ==
  \/ \E phase \in Phases :
       \E db \in (IF phase = "bootstrap" THEN PropsDb ELSE {combined.db}) :
         CombinedCall(phase, db)
  \/ ForeignSettle
  \/ AppSettle
  \/ \E a \in AllApps : RunMigrationsSettle(a)
  \/ \E a \in AllApps : ResumeBootstrap(a)

SpecCombine == InitCombine /\ [][NextCombine]_vars

(***************************************************************************)
(* Properties                                                              *)
(***************************************************************************)
BootstrapDone(a) == boot[a].pc \in {"resolved", "rejected"}

\* the collaborator resolved {success: false, ...} in the current bootstrap of a
ReportedFailure(a) ==
  /\ calls[a].outcome.kind = "resolved"
  /\ ~calls[a].outcome.value.success

\* the collaborator resolved {success: true, ...} in the current bootstrap of a
ReportedSuccess(a) ==
  /\ calls[a].outcome.kind = "resolved"
  /\ calls[a].outcome.value.success

CollaboratorRejected(a) == calls[a].outcome.kind = "rejected"

\* C1: whenever the migration collaborator resolves {success: false, error:
\* {message: M}}, onMigrationError is invoked exactly once, with an error whose
\* message is M, and migrationsComplete is false afterwards (both variants).
C1_FailureCallbackOnce ==
  \A a \in apps :
    (/\ BootstrapDone(a)
     /\ options[a].onMigrationError
     /\ ReportedFailure(a)
     /\ calls[a].outcome.value.error # Undefined)
    => /\ Len(calls[a].onMigrationError) = 1
       /\ calls[a].onMigrationError[1].arg.message = calls[a].outcome.value.error.message
       /\ ~state[a].migrationsComplete

\* C2: whenever the migration collaborator rejects with X, onMigrationError is
\* invoked exactly once, with X itself if X is an Error and otherwise with an
\* Error whose message is String(X), and migrationsComplete is false afterwards.
C2_RejectionCallbackOnce ==
  \A a \in apps :
    (/\ BootstrapDone(a)
     /\ options[a].onMigrationError
     /\ CollaboratorRejected(a))
    => LET X == calls[a].outcome.value
           cs == calls[a].onMigrationError
       IN /\ Len(cs) = 1
          /\ IF X.t = "Error"
               THEN cs[1].arg = X
               ELSE cs[1].arg.t = "Error" /\ cs[1].arg.message = String(X)
          /\ ~state[a].migrationsComplete
          /\ options[a].variant = "compose" => ~_databaseContext.migrationsComplete

\* a bootstrap has ended after the collaborator rejected with a value that is no Error
C2_Witness ==
  \E a \in apps :
    /\ BootstrapDone(a)
    /\ options[a].onMigrationError
    /\ CollaboratorRejected(a)
    /\ calls[a].outcome.value.t = "number"
    /\ Len(calls[a].onMigrationError) = 1
    /\ state[a].db \in Dbs

\* C3: whenever the migration collaborator resolves {success: true, executed: N}
\* (database handle present, migration list non-empty), onMigrationsComplete is
\* invoked exactly once with that result, the result is stored as the migration
\* result, and migrationsComplete is true after bootstrap resolves.
C3_SuccessCallbackOnce ==
  \A a \in apps :
    (BootstrapDone(a) /\ ReportedSuccess(a))
    => LET result == calls[a].outcome.value
           cs == calls[a].onMigrationsComplete
       IN /\ options[a].onMigrationsComplete => Len(cs) = 1 /\ cs[1].arg = result
          /\ state[a].migrationResult = result
          /\ boot[a].pc = "resolved" => state[a].migrationsComplete

\* the functions of one phase of a lifecycle
FnsOf(lifecycle, phase) ==
  IF lifecycle[phase].isArray
    THEN {lifecycle[phase].fns[k] : k \in 1..Len(lifecycle[phase].fns)}
    ELSE {lifecycle[phase].fn}

\* function fn was invoked by the current combined call before position j and has resolved
ResolvedBefore(fn, j) ==
  \E i \in 1..(j - 1) : invoked[i].fn = fn /\ invoked[i].status = "resolved"

\* C4: the combined bootstrap invokes A's bootstrap and waits for it to complete
\* before it invokes B's bootstrap, and resolves only after both have resolved;
\* if A's bootstrap rejects, B's bootstrap is never invoked and the combined
\* bootstrap rejects with A's error.
C4_BootstrapInOrder ==
  (combined.pc # "idle" /\ combined.phase = "bootstrap")
  => LET A == FnsOf(eldrinLifecycle, "bootstrap")
         B == FnsOf(reactLifecycle, "bootstrap")
     IN /\ \A j \in 1..Len(invoked) :
             invoked[j].fn \in B => \A f \in A : ResolvedBefore(f, j)
        /\ combined.pc = "resolved"
             => \A f \in A \cup B : ResolvedBefore(f, Len(invoked) + 1)
        /\ \A i \in 1..Len(invoked) :
             (invoked[i].fn \in A /\ invoked[i].status = "rejected")
             => /\ \A j \in 1..Len(invoked) : invoked[j].fn \notin B
                /\ combined.pc = "rejected"
                /\ combined.error = invoked[i].error

\* a combined bootstrap has resolved after invoking A's bootstrap, then B's
C4_Witness ==
  /\ combined.pc = "resolved"
  /\ combined.phase = "bootstrap"
  /\ Len(invoked) >= 2
  /\ invoked[1].fn \in FnsOf(eldrinLifecycle, "bootstrap")
  /\ invoked[Len(invoked)].fn \in FnsOf(reactLifecycle, "bootstrap")

\* C5: in combineLifecycles(createApp(options), view) the view's bootstrap is
\* invoked only when the app's bootstrap has finished with migrationsComplete
\* true; never after the migration collaborator reported failure or rejected.
C5_ViewBootstrapOnlyWhenReady ==
  (eldrinLifecycle = CreateAppLifecycle("app1") /\ combined.phase = "bootstrap")
  => \A j \in 1..Len(invoked) :
       invoked[j].fn \in FnsOf(reactLifecycle, "bootstrap")
       => /\ boot["app1"].pc = "resolved"
          /\ state["app1"].migrationsComplete
          /\ ~ReportedFailure("app1")
          /\ ~CollaboratorRejected("app1")

\* the migration collaborator reported failure or rejected in the current bootstrap of a
MigrationFailed(a) == ReportedFailure(a) \/ CollaboratorRejected(a)

\* C6, as stated: in the DOM-rendering variant, whenever the migration
\* collaborator reports failure or rejects, bootstrap rejects with the same
\* error that was passed to onMigrationError, and never resolves with
\* migrationsComplete false.
C6_RejectsWithCallbackError ==
  \A a \in apps :
    (options[a].variant = "dom" /\ BootstrapDone(a) /\ MigrationFailed(a))
    => /\ boot[a].pc = "rejected"
       /\ \A i \in 1..Len(calls[a].onMigrationError) :
            calls[a].onMigrationError[i].arg = boot[a].error

\* C6, amended: in the DOM-rendering variant, whenever the migration collaborator
\* reports failure or rejects, bootstrap rejects and never resolves with
\* migrationsComplete false; it rejects with the error passed to the last
\* invocation of onMigrationError when that invocation returns, and with the
\* value that invocation threw when it throws.
C6_RejectsAfterFailure ==
  \A a \in apps :
    (options[a].variant = "dom" /\ BootstrapDone(a))
    => /\ ~(boot[a].pc = "resolved" /\ ~state[a].migrationsComplete)
       /\ MigrationFailed(a)
            => LET cs == calls[a].onMigrationError IN
               /\ boot[a].pc = "rejected"
               /\ ~state[a].migrationsComplete
               /\ options[a].onMigrationError
                    => /\ cs # <<>>
                       /\ boot[a].error = IF cs[Len(cs)].threw THEN cs[Len(cs)].value
                                          ELSE cs[Len(cs)].arg
                       /\ (\A i \in 1..Len(cs) : ~cs[i].threw)
                            => \A i \in 1..Len(cs) : cs[i].arg = boot[a].error
               /\ ~options[a].onMigrationError
                    => /\ boot[a].error.t = "Error"
                       /\ (CollaboratorRejected(a) /\ calls[a].outcome.value.t = "Error")
                            => boot[a].error = calls[a].outcome.value

\* a DOM-variant bootstrap has rejected after a reported failure, the callback having returned
C6_Witness ==
  \E a \in apps :
    /\ options[a].variant = "dom"
    /\ boot[a].pc = "rejected"
    /\ ReportedFailure(a)
    /\ calls[a].onMigrationError # <<>>
    /\ \A i \in 1..Len(calls[a].onMigrationError) : ~calls[a].onMigrationError[i].threw
    /\ boot[a].error.message = "checksum mismatch"

\* C7: whenever props carry no database handle, after bootstrap resolves
\* migrationsComplete is true and the stored and the published database handle
\* are null, whatever the migration list and whatever earlier bootstraps stored.
C7_NoDatabaseStoresNull ==
  \A a \in apps :
    (boot[a].pc = "resolved" /\ ~Truthy(boot[a].db))
    => /\ state[a].migrationsComplete
       /\ state[a].db = Null
       /\ options[a].variant = "compose"
            => _databaseContext.db = Null /\ _databaseContext.migrationsComplete

\* C8: whenever props carry a database handle and the migration list is empty,
\* after bootstrap resolves migrationsComplete is true, the migration result is
\* absent and the stored database handle is the one from props.
C8_NoMigrationsComplete ==
  \A a \in apps :
    (BootstrapDone(a) /\ Truthy(boot[a].db) /\ options[a].migrations = <<>>)
    => /\ boot[a].pc = "resolved"
       /\ state[a].migrationsComplete
       /\ state[a].migrationResult \in {Null, Undefined}
       /\ state[a].db = boot[a].db
       /\ options[a].variant = "compose"
            => _databaseContext = [db |-> boot[a].db, migrationsComplete |-> TRUE,
                                   migrationResult |-> Null]

\* a second bootstrap with a database handle and no migrations has resolved
C8_Witness ==
  \E a \in apps :
    /\ boot[a].pc = "resolved"
    /\ boot[a].n = 2
    /\ Truthy(boot[a].db)
    /\ options[a].migrations = <<>>
    /\ state[a].migrationsComplete

\* C9: a bootstrap call invokes runMigrations if and only if props carry a
\* database handle and the migration list is non-empty, and then exactly once
\* (with that handle and that list); without a database handle bootstrap
\* resolves, and invokes neither callback.
C9_RunMigrationsIffDatabaseAndMigrations ==
  \A a \in apps :
    boot[a].pc # "idle"
    => /\ IF Truthy(boot[a].db) /\ Len(options[a].migrations) > 0
            THEN calls[a].runMigrations =
                   <<[db |-> boot[a].db, migrations |-> options[a].migrations]>>
            ELSE calls[a].runMigrations = <<>>
       /\ ~Truthy(boot[a].db)
            => /\ boot[a].pc = "resolved"
               /\ calls[a].onMigrationsComplete = <<>>
               /\ calls[a].onMigrationError = <<>>

\* a bootstrap without database handle, of an app that has migrations, has resolved
C9_Witness ==
  \E a \in apps :
    /\ boot[a].pc = "resolved"
    /\ ~Truthy(boot[a].db)
    /\ options[a].migrations # <<>>
    /\ calls[a].runMigrations = <<>>

\* C10: mount and unmount of the combined lifecycle invoke only B's mount and
\* unmount respectively; A's mount and unmount are never invoked by any sequence
\* of calls, and a rejection of B's mount/unmount is the rejection of the
\* combined mount/unmount.
C10_MountUnmountDelegated ==
  /\ \A fn \in everInvoked :
       fn.phase \in {"mount", "unmount"} => fn.of = "react"
  /\ (combined.pc # "idle" /\ combined.phase \in {"mount", "unmount"})
     => /\ \A i \in 1..Len(invoked) :
             /\ invoked[i].fn \in FnsOf(reactLifecycle, combined.phase)
             /\ invoked[i].status = "rejected"
                  => combined.pc = "rejected" /\ combined.error = invoked[i].error
        /\ combined.pc = "rejected"
             => \E i \in 1..Len(invoked) : invoked[i].status = "rejected"
        /\ combined.pc = "resolved"
             => \A f \in FnsOf(reactLifecycle, combined.phase) :
                  ResolvedBefore(f, Len(invoked) + 1)

\* a combined unmount has rejected with the error of B's unmount, after a mount
C10_Witness ==
  /\ combined.phase = "unmount"
  /\ combined.pc = "rejected"
  /\ invoked # <<>>
  /\ invoked[Len(invoked)].fn \in FnsOf(reactLifecycle, "unmount")
  /\ combined.error = invoked[Len(invoked)].error
  /\ \E fn \in everInvoked : fn.phase = "mount"
  /\ eldrinLifecycle = CreateAppLifecycle("app1")


\* the functions of one phase of a lifecycle, in list order (a single function
\* as the list of that one function)
ListOf(lifecycle, phase) ==
  IF lifecycle[phase].isArray THEN lifecycle[phase].fns ELSE <<lifecycle[phase].fn>>

\* the functions a combined phase is to invoke, in order
Expected(phase) ==
  IF phase = "bootstrap"
    THEN ListOf(eldrinLifecycle, phase) \o ListOf(reactLifecycle, phase)
    ELSE ListOf(reactLifecycle, phase)

\* C11: when a phase of a lifecycle is a list of functions, the combined phase
\* invokes every function of the list exactly once in list order, each only
\* after the previous one has resolved; if one rejects, no later function of
\* the list (and, for bootstrap, no function of the view lifecycle) is invoked.
\* A single function behaves like a one-element list.
C11_ListsRunInOrder ==
  combined.pc # "idle"
  => LET want == Expected(combined.phase) IN
     /\ Len(invoked) <= Len(want)
     /\ \A i \in 1..Len(invoked) :
          /\ invoked[i].fn = want[i]
          /\ i < Len(invoked) => invoked[i].status = "resolved"
          /\ invoked[i].status = "rejected" => combined.pc = "rejected"
          /\ invoked[i].status = "pending" => combined.pc = "awaiting"
     /\ combined.pc = "resolved"
          => /\ Len(invoked) = Len(want)
             /\ \A i \in 1..Len(invoked) : invoked[i].status = "resolved"
     /\ combined.pc = "rejected"
          => invoked # <<>> /\ invoked[Len(invoked)].status = "rejected"

\* a combined bootstrap has rejected at the first function of a two-function
\* list of the Eldrin lifecycle, the view lifecycle having functions of its own
C11_Witness ==
  /\ combined.phase = "bootstrap"
  /\ combined.pc = "rejected"
  /\ eldrinLifecycle.bootstrap.isArray
  /\ Len(eldrinLifecycle.bootstrap.fns) = 2
  /\ reactLifecycle.bootstrap.isArray
  /\ Len(reactLifecycle.bootstrap.fns) = 2
  /\ Len(invoked) = 1
  /\ invoked[1].status = "rejected"


\* C20: a bootstrap with a database handle and a non-empty migration list does
\* not complete before the migration collaborator settles, and completes
\* (resolves or rejects) eventually once the collaborator has resolved or
\* rejected; nothing else (no timeout) completes it.
C20_BootstrapWaitsForMigrations ==
  /\ [](\A a \in apps :
          (BootstrapDone(a) /\ Truthy(boot[a].db) /\ Len(options[a].migrations) > 0)
          => calls[a].outcome.kind \in {"resolved", "rejected"})
  /\ [][\A a \in apps :
          (boot[a].pc = "awaiting" /\ boot'[a].pc # "awaiting")
          => boot'[a].pc = "settled" /\ calls'[a].outcome.kind \in {"resolved", "rejected"}]_vars
  /\ \A a \in AllApps : (boot[a].pc = "settled") ~> BootstrapDone(a)

\* a bootstrap has rejected after the migration collaborator rejected
C20_Witness ==
  \E a \in apps :
    /\ boot[a].pc = "rejected"
    /\ CollaboratorRejected(a)
    /\ Truthy(boot[a].db)
    /\ Len(options[a].migrations) > 0


\* C15: each bootstrap invocation writes the shared lifecycle state (the record
\* published through _setDatabaseContext) exactly once, at the end of that
\* bootstrap, whether it succeeded or failed and whatever the callbacks do.
C15_ContextWrittenOnce ==
  \A a \in apps :
    options[a].variant = "compose"
    => /\ BootstrapDone(a) => calls[a].setDatabaseContext = 1
       /\ boot[a].pc \in {"awaiting", "settled"} => calls[a].setDatabaseContext = 0


\* C12: in the DOM-rendering variant an unmount call made when the closure state
\* records neither a root nor a mounted element (before any mount, or right after
\* another unmount) calls unmount on no React root and changes neither the
\* closure state, nor any root, nor the contents of any element; unmount has no
\* statement that throws on that path, and the call ends normally.
C12_UnmountIdempotent ==
  [][\A a \in apps :
       (/\ options[a].variant = "dom"
        /\ ~SomethingMounted(a)
        /\ UnmountCall(a))
       => /\ state' = state
          /\ roots' = roots
          /\ html' = html
          /\ lastCall'[a].rootUnmounts = 0]_vars

\* an unmount has torn a rendered root down and a second unmount, with nothing
\* mounted, has followed it
C12_Witness ==
  \E a \in apps :
    /\ options[a].variant = "dom"
    /\ lastCall[a].op = "unmount"
    /\ ~lastCall[a].mounted
    /\ Len(roots[a]) = 1
    /\ roots[a][1].unmounted = 1
    /\ \A i \in 1..Len(mounts[a]) : mounts[a][i].pc = "resolved"


\* C13: in the DOM-rendering variant a mount call with no domElement in its props,
\* made while the document has no element with id "app-<name>", is rejected with
\* an error in the step of the call itself, before any await, and changes
\* neither the closure state (no mounted element, no root recorded) nor any
\* root or element.
C13_MountWithoutTargetFails ==
  [][\A a \in apps :
       (/\ options[a].variant = "dom"
        /\ GetElementById(AppElementId(a)) = Null
        /\ MountCall(a, Undefined))
       => LET m == mounts'[a][Len(mounts'[a])] IN
          /\ m.pc = "rejected"
          /\ m.error.t = "Error"
          /\ state' = state
          /\ roots' = roots
          /\ html' = html]_vars

\* the first mount call found no target and was rejected, nothing being recorded
C13_Witness ==
  \E a \in apps :
    /\ options[a].variant = "dom"
    /\ Element(AppElementId(a)) \notin document
    /\ Len(mounts[a]) = 1
    /\ mounts[a][1].pc = "rejected"
    /\ mounts[a][1].error.id = "part_001:115"
    /\ state[a].mountedElement = Undefined
    /\ state[a].reactRoot = Undefined
    /\ roots[a] = <<>>


\* C16: in both variants every step that changes the database handle, the
\* migrations-complete flag or the migration result of an app's closure state is
\* a step of its bootstrap, and is no step of a mount or an unmount: mount calls,
\* their continuations and unmount calls, in any number and order, leave the
\* three fields (and the composition variant's published context) as they were.
C16_OnlyBootstrapChangesSharedState ==
  [][\A a \in apps :
       \/ /\ SharedState(state'[a]) = SharedState(state[a])
          /\ boot'[a] = boot[a] => _databaseContext' = _databaseContext
       \/ /\ boot'[a] # boot[a]
          /\ mounts' = mounts
          /\ roots' = roots
          /\ html' = html
          /\ lastCall' = lastCall]_vars

\* bootstrap has stored a database and completed the migrations, a mount has
\* rendered and an unmount has torn it down, and the stored values are still there
C16_Witness ==
  \E a \in apps :
    /\ options[a].variant = "dom"
    /\ boot[a].pc = "resolved"
    /\ state[a].db \in Dbs
    /\ state[a].migrationsComplete
    /\ state[a].migrationResult # Undefined
    /\ Len(roots[a]) = 1
    /\ roots[a][1].unmounted = 1
    /\ lastCall[a].op = "unmount"
    /\ lastCall[a].mounted


\* C17: in the DOM-rendering variant the root a mount call creates is rendered,
\* in the call's target, with a DatabaseProvider that publishes the db,
\* migrationsComplete and migrationResult the closure state held when mount was
\* called, whatever bootstrap has done since; these are db = null and
\* migrationsComplete = false when no bootstrap call had been made by then.
C17_MountRendersStateAtCall ==
  [][\A a \in apps :
       Len(roots'[a]) > Len(roots[a])
       => \E i \in 1..Len(mounts[a]) :
            LET k == Len(roots'[a])
                r == roots'[a][k]
                m == mounts[a][i]
            IN /\ m.pc = "awaiting"
               /\ mounts'[a][i].pc = "resolved"
               /\ k = Len(roots[a]) + 1
               /\ r.container = m.domElement
               /\ k \in html'[r.container]
               /\ DatabaseProvider(r.element) = m.called.shared
               /\ m.called.boots = 0
                    => /\ DatabaseProvider(r.element).db = Null
                       /\ ~DatabaseProvider(r.element).migrationsComplete]_vars

\* a root is rendered with the database and the result a completed bootstrap left
C17_Witness ==
  \E a \in apps :
    /\ options[a].variant = "dom"
    /\ Len(roots[a]) = 1
    /\ roots[a][1].unmounted = 0
    /\ 1 \in html[roots[a][1].container]
    /\ roots[a][1].element.db \in Dbs
    /\ roots[a][1].element.migrationsComplete
    /\ roots[a][1].element.migrationResult # Undefined
    /\ roots[a][1].element = SharedState(state[a])


\* C19: in the DOM-rendering variant, when a mount call made with nothing mounted
\* and no mount in flight has completed successfully, and the next call on the
\* app is an unmount, that unmount tears down what was mounted: the root the
\* mount created has been unmounted exactly once, its target holds no content,
\* and the closure state records neither a root nor a mounted element, which is
\* the state a first mount starts from.
C19_UnmountTearsDown ==
  [][\A a \in apps :
       (/\ options[a].variant = "dom"
        /\ lastCall[a].op = "mount"
        /\ mounts[a][Len(mounts[a])].pc = "resolved"
        /\ mounts[a][Len(mounts[a])].fresh
        /\ UnmountCall(a))
       => LET k == mounts[a][Len(mounts[a])].root IN
          /\ roots[a][k].unmounted = 0
          /\ roots'[a][k].unmounted = 1
          /\ lastCall'[a].rootUnmounts = 1
          /\ html'[roots[a][k].container] = {}
          /\ state'[a].reactRoot = Undefined
          /\ state'[a].mountedElement = Undefined]_vars

\* a mount made from the unmounted state rendered a root, and the unmount that
\* followed it has acted
C19_Witness ==
  \E a \in apps :
    /\ options[a].variant = "dom"
    /\ Len(mounts[a]) = 1
    /\ mounts[a][1].pc = "resolved"
    /\ mounts[a][1].fresh
    /\ lastCall[a] = [op |-> "unmount", mounted |-> TRUE, rootUnmounts |-> 1]
    /\ roots[a][mounts[a][1].root].unmounted = 1
    /\ state[a].reactRoot = Undefined
    /\ state[a].mountedElement = Undefined


\* C14: in both variants a call of useDatabase or useDatabaseContext made by a view
\* that no DatabaseProvider encloses throws an Error (the usage error), whereas a
\* call of useMigrationsComplete made there returns false, and no call of
\* useMigrationsComplete throws, wherever it is made.
C14_StrictHooksThrowLenientReturnsFalse ==
  /\ (hook.name \in {"useDatabase", "useDatabaseContext"} /\ hook.context = Null)
       => /\ hook.result.completion = "throw"
          /\ hook.result.value.t = "Error"
          /\ hook.result.value.id = hook.name
  /\ (hook.name = "useMigrationsComplete" /\ hook.context = Null)
       => hook.result = Returned(FALSE)
  /\ hook.name = "useMigrationsComplete" => hook.result.completion = "return"

\* a view outside any provider has called the strict database accessor, after a
\* bootstrap that stored a database
C14_Witness ==
  /\ hook.name = "useDatabase"
  /\ hook.context = Null
  /\ hook.result.completion = "throw"
  /\ \E a \in apps : state[a].db \in Dbs

\* what useAuthHeaders and getEldrinGlobal return, given window.__ELDRIN__
ShellHasAccessor ==
  /\ window \notin {Undefined, Null}
  /\ window.getAuthHeaders # Undefined

ReturnsOfShellHooks ==
  /\ hook.name = "getEldrinGlobal"
       => hook.result = Returned(IF window \in {Undefined, Null} THEN Null ELSE window)
  /\ (hook.name = "useAuthHeaders" /\ ~ShellHasAccessor)
       => hook.result = Returned(EmptyMapping)
  /\ (hook.name = "useAuthHeaders" /\ ShellHasAccessor
        /\ window.getAuthHeaders.does = "return")
       => hook.result = Returned(window.getAuthHeaders.value)

\* C18 as stated: useAuthHeaders returns the mapping the shell global's
\* getAuthHeaders produces when the global exists and has that function, and an
\* empty mapping otherwise; getEldrinGlobal returns the global if present and
\* null otherwise; and neither ever throws.
C18_ShellHooksNeverThrow ==
  /\ ReturnsOfShellHooks
  /\ hook.name \in {"useAuthHeaders", "getEldrinGlobal"}
       => hook.result.completion = "return"

\* C18, amended: the same returns; getEldrinGlobal never throws, and
\* useAuthHeaders throws exactly when the shell global's getAuthHeaders throws,
\* and then throws the value getAuthHeaders threw.
C18_ShellHooksThrowOnlyWhatShellThrows ==
  /\ ReturnsOfShellHooks
  /\ hook.name = "getEldrinGlobal" => hook.result.completion = "return"
  /\ hook.name = "useAuthHeaders"
       => IF ShellHasAccessor /\ window.getAuthHeaders.does = "throw"
            THEN hook.result = Threw(window.getAuthHeaders.value)
            ELSE hook.result.completion = "return"

\* useAuthHeaders has returned the headers of the shell's accessor
C18_Witness ==
  /\ hook.name = "useAuthHeaders"
  /\ ShellHasAccessor
  /\ hook.result.completion = "return"
  /\ hook.result.value # EmptyMapping


\* C21: in both variants a call of useDatabase made by a view that a
\* DatabaseProvider encloses returns, and does not throw; what it returns is the
\* database handle the provider publishes, which is a database or null; so a
\* provider that publishes null (useDatabase returns null) is told apart from
\* no provider (useDatabase throws).
C21_UseDatabaseInsideProvider ==
  (hook.name = "useDatabase" /\ hook.context # Null)
    => /\ hook.result = Returned(hook.context.db)
       /\ hook.context.db \in Dbs \cup {Null}

\* inside a provider that publishes no database, useDatabase has returned null
C21_Witness ==
  /\ hook.name = "useDatabase"
  /\ hook.context # Null
  /\ hook.context.db = Null
  /\ hook.result = Returned(Null)


\* the bootstrap of a is waiting for the migration collaborator, or resuming
WaitingForMigrations(a) == boot[a].pc \in {"awaiting", "settled"}

\* no bootstrap of a has finished yet
NoBootstrapFinished(a) ==
  \/ boot[a].n = 0
  \/ boot[a].n = 1 /\ WaitingForMigrations(a)

\* this step finishes a bootstrap of a that had no database, or no migrations,
\* or whose collaborator resolved with success true
FinishesComplete(a) ==
  /\ boot[a].pc \notin {"resolved", "rejected"} \/ boot'[a].n > boot[a].n
  /\ boot'[a].pc = "resolved"
  /\ \/ ~Truthy(boot'[a].db)
     \/ options[a].migrations = <<>>
     \/ /\ calls'[a].outcome.kind = "resolved"
        /\ calls'[a].outcome.value.success

FlagFalseBeforeFirstFinish ==
  /\ \A a \in apps : (NoBootstrapFinished(a) => ~state[a].migrationsComplete)
  /\ (\A a \in apps : NoBootstrapFinished(a)) => ~_databaseContext.migrationsComplete

FlagRisesOnlyAtCompleteFinish ==
  /\ \A a \in apps :
       ((state'[a].migrationsComplete /\ ~state[a].migrationsComplete)
          => FinishesComplete(a))
  /\ (_databaseContext'.migrationsComplete /\ ~_databaseContext.migrationsComplete)
       => (\E a \in apps : FinishesComplete(a))

\* C22: the migrations-complete flag of an app's closure state, and that of the
\* published context, is false as long as no bootstrap has finished (initially,
\* and while the first bootstrap waits for the collaborator), and it turns
\* true only in a step that finishes a bootstrap whose database handle was
\* absent, or whose migration list was empty, or whose collaborator resolved
\* with success true.
C22_FlagOnlyAfterCompleteBootstrap ==
  /\ [](FlagFalseBeforeFirstFinish)
  /\ [][FlagRisesOnlyAtCompleteFinish]_vars

\* the collaborator has resolved with success true and the bootstrap has
\* finished: the flag is true in the closure state and in the published context
C22_Witness ==
  \E a \in apps :
    /\ options[a].variant = "compose"
    /\ boot[a].pc = "resolved"
    /\ ReportedSuccess(a)
    /\ state[a].migrationsComplete
    /\ _databaseContext.migrationsComplete


\* C23: within one bootstrap invocation at most one of the two callbacks is
\* invoked: onMigrationError is not invoked when the collaborator resolved with
\* success true, and onMigrationsComplete is not invoked when the collaborator
\* reported failure or rejected, whatever the callbacks do.
C23_AtMostOneCallback ==
  \A a \in apps :
    /\ Len(calls[a].onMigrationsComplete) = 0 \/ Len(calls[a].onMigrationError) = 0
    /\ ReportedSuccess(a) => Len(calls[a].onMigrationError) = 0
    /\ MigrationFailed(a) => Len(calls[a].onMigrationsComplete) = 0


\* root k of a is rendered: it has not been unmounted and its output is in its
\* container
Rendered(a, k) ==
  /\ roots[a][k].unmounted = 0
  /\ k \in html[roots[a][k].container]

\* C24: in the DOM-rendering variant, when the latest of the mount and unmount
\* calls on an app is an unmount (which completes in the step of its call), no
\* root the app has created is rendered, also when that unmount was called
\* while a mount was suspended at its await, and when mount was called twice
\* with no unmount in between.
C24_NothingRenderedAfterUnmount ==
  \A a \in apps :
    (options[a].variant = "dom" /\ lastCall[a].op = "unmount")
    => \A k \in 1..Len(roots[a]) : ~Rendered(a, k)


\* C25: with two instances of the composition variant in one process, once the
\* bootstraps of both have completed, whatever their interleaving, the context
\* DatabaseProvider publishes for an app (the module-level context) carries the
\* database handle, the flag and the result of that app's own bootstrap.
C25_NoCrossInstanceInterference ==
  (\A a \in apps : BootstrapDone(a))
    => \A a \in apps :
         /\ _databaseContext.db = state[a].db
         /\ _databaseContext.migrationsComplete = state[a].migrationsComplete

====
